---- MODULE Spec2Model ----
(***************************************************************************)
(* Model of crates/edit/src/icu.rs: the Converter, the Text snapshot of a  *)
(* document buffer and the two Regex search cursors (Full: regex crate,    *)
(* Lite: std substring search).  Strings are sequences of UTF-8 bytes,     *)
(* offsets are byte offsets counted from 0 as in the source; Option values *)
(* are sequences: <<>> is None, <<s, e>> is Some(s..e).                    *)
(***************************************************************************)
EXTENDS Integers, Sequences, FiniteSets, TLC

\* ------------------------------------------------------------------ bounds
\* Longest document, in code points, the searches run over.
MaxChars == 2
\* Number of next() results kept in the recorded run of a cursor.
MaxTrace == 4
\* Longest buffer, in bytes, handed to convert().
MaxBuf == 2

\* ------------------------------------------------------------ program flags
CASE_INSENSITIVE == 1
MULTILINE == 2
LITERAL == 4

HasFlag(flags, bit) == (flags \div bit) % 2 = 1

\* --------------------------------------------------------- bytes and UTF-8
None == <<>>

\* Code points used in documents and patterns, as their UTF-8 encodings.
ChLowerK == <<107>>
ChUpperK == <<75>>
ChUpperE == <<195, 137>>
ChLowerE == <<195, 169>>
ChKelvin == <<226, 132, 170>>
ChReplacement == <<239, 191, 189>>
ChStar == <<42>>
ChPlus == <<43>>
ChQuest == <<63>>
ChOpen == <<40>>
ChClose == <<41>>
ChBackslash == <<92>>

IsCont(b) == b >= 128 /\ b <= 191

\* Length of the UTF-8 sequence a lead byte announces; 0 for a byte that
\* cannot start a sequence.  (Lead bytes E0, ED, F0.. do not occur here.)
Width(b) ==
  IF b < 128 THEN 1
  ELSE IF b >= 194 /\ b <= 223 THEN 2
  ELSE IF (b >= 225 /\ b <= 236) \/ b = 238 \/ b = 239 THEN 3
  ELSE 0

Drop(s, n) == SubSeq(s, n + 1, Len(s))

\* str::is_char_boundary
IsCharBoundary(s, i) ==
  IF i = 0 \/ i = Len(s) THEN TRUE
  ELSE IF i < 0 \/ i > Len(s) THEN FALSE
  ELSE ~IsCont(s[i + 1])

\* String::from_utf8_lossy: every maximal invalid part becomes U+FFFD.
RECURSIVE Utf8Lossy(_)
Utf8Lossy(chunk) ==
  IF chunk = <<>> THEN <<>>
  ELSE LET b == chunk[1]
           w == Width(b)
           n == Len(chunk)
       IN  IF w = 1 THEN <<b>> \o Utf8Lossy(Drop(chunk, 1))
           ELSE IF w = 0 THEN ChReplacement \o Utf8Lossy(Drop(chunk, 1))
           ELSE IF ~(n >= 2 /\ IsCont(chunk[2]))
                THEN ChReplacement \o Utf8Lossy(Drop(chunk, 1))
           ELSE IF w = 2 THEN SubSeq(chunk, 1, 2) \o Utf8Lossy(Drop(chunk, 2))
           ELSE IF ~(n >= 3 /\ IsCont(chunk[3]))
                THEN ChReplacement \o Utf8Lossy(Drop(chunk, 2))
           ELSE SubSeq(chunk, 1, 3) \o Utf8Lossy(Drop(chunk, 3))

\* str::chars on a valid UTF-8 string: its code points, each as its bytes.
RECURSIVE CharsOf(_)
CharsOf(s) ==
  IF s = <<>> THEN <<>>
  ELSE LET w == IF Width(s[1]) = 0 \/ Width(s[1]) > Len(s) THEN 1 ELSE Width(s[1])
       IN  <<SubSeq(s, 1, w)>> \o CharsOf(Drop(s, w))

RECURSIVE Concat(_)
Concat(ss) == IF ss = <<>> THEN <<>> ELSE ss[1] \o Concat(Tail(ss))

\* char::to_lowercase on the code points of the model.
LowerChar(c) ==
  IF c = ChUpperK THEN ChLowerK
  ELSE IF c = ChUpperE THEN ChLowerE
  ELSE IF c = ChKelvin THEN ChLowerK
  ELSE c

\* str::to_lowercase
ToLowercase(s) ==
  LET cs == CharsOf(s)
  IN  Concat([i \in 1..Len(cs) |-> LowerChar(cs[i])])

\* str::find: Some(first byte index of needle in hay) or None.
Find(hay, needle) ==
  LET hits == {i \in 0..(Len(hay) - Len(needle)) :
                 SubSeq(hay, i + 1, i + Len(needle)) = needle}
  IN  IF hits = {} THEN None
      ELSE <<CHOOSE i \in hits : \A j \in hits : i <= j>>

\* ---------------------------------------------------------- Converter
\* A byte of an output buffer that was never written (MaybeUninit<u8>).
Uninit == 256

\* Variant of ConverterNew: one supported encoding of the two is enough.
ConverterNewEither(source_encoding, target_encoding) ==
  IF (source_encoding = "UTF-8" \/ source_encoding = "UTF-8 BOM") \/
     (target_encoding = "UTF-8" \/ target_encoding = "UTF-8 BOM")
    THEN [ok |-> TRUE, code |-> 0]
    ELSE [ok |-> FALSE, code |-> 16]

\* Converter::new: Ok(Self), or Err(apperr::Error::new_icu(16)).
ConverterNew(source_encoding, target_encoding) ==
  IF (source_encoding = "UTF-8" \/ source_encoding = "UTF-8 BOM") /\
     (target_encoding = "UTF-8" \/ target_encoding = "UTF-8 BOM")
    THEN [ok |-> TRUE, code |-> 0]
    ELSE [ok |-> FALSE, code |-> 16]

\* Variant of ConvertLen: the length of the input, whatever the output holds.
ConvertLenOfInput(in, out) == Len(in)

\* Converter::convert: len = input.len().min(output.len())
ConvertLen(in, out) == IF Len(in) <= Len(out) THEN Len(in) ELSE Len(out)

\* Converter::convert: the output buffer after copy_nonoverlapping(input, output, len).
ConvertOutput(in, out) ==
  [i \in 1..Len(out) |-> IF i <= ConvertLen(in, out) THEN in[i] ELSE out[i]]

\* Converter::convert: the value returned, Ok((len, len)).
ConvertResult(in, out) == <<ConvertLen(in, out), ConvertLen(in, out)>>

\* ------------------------------------------------- regex crate (Full mode)
\* The bytes regex::escape puts a backslash before:  \ . + * ? ( ) | [ ] { } ^ $ # & - ~
MetaChars ==
  {<<b>> : b \in {92, 46, 43, 42, 63, 40, 41, 124, 91, 93, 123, 125, 94, 36, 35, 38, 45, 126}}

IsMeta(c) == c \in MetaChars

\* Variant of Escape: nothing is escaped.
EscapeNothing(pattern) == pattern

\* regex::escape
Escape(pattern) ==
  LET cs == CharsOf(pattern)
  IN  Concat([i \in 1..Len(cs) |-> IF IsMeta(cs[i]) THEN ChBackslash \o cs[i] ELSE cs[i]])

\* The regex syntax the patterns of the model use: a concatenation of atoms,
\* each a literal code point, an escaped metacharacter or a capture group
\* around one literal, each with an optional quantifier * + ?.  An item is
\* [c: the literal, q: "1" | "*" | "+" | "?", g: whether it is a capture group].
RECURSIVE ParseItems(_, _)
ParseItems(cs, i) ==
  IF i > Len(cs) THEN [ok |-> TRUE, items |-> <<>>]
  ELSE
    LET isGroup == cs[i] = ChOpen
        isEsc   == cs[i] = ChBackslash
        atomOk  == IF isGroup
                     THEN i + 2 <= Len(cs) /\ ~IsMeta(cs[i + 1]) /\ cs[i + 2] = ChClose
                   ELSE IF isEsc THEN i + 1 <= Len(cs) /\ IsMeta(cs[i + 1])
                   ELSE ~IsMeta(cs[i])
        lit     == IF isGroup \/ isEsc THEN cs[i + 1] ELSE cs[i]
        after   == IF isGroup THEN i + 3 ELSE IF isEsc THEN i + 2 ELSE i + 1
        hasQ    == after <= Len(cs) /\ cs[after] \in {ChStar, ChPlus, ChQuest}
        q       == IF ~hasQ THEN "1"
                   ELSE IF cs[after] = ChStar THEN "*"
                   ELSE IF cs[after] = ChPlus THEN "+" ELSE "?"
        rest    == ParseItems(cs, IF hasQ THEN after + 1 ELSE after)
    IN  IF ~atomOk \/ ~rest.ok THEN [ok |-> FALSE, items |-> <<>>]
        ELSE [ok |-> TRUE, items |-> <<[c |-> lit, q |-> q, g |-> isGroup]>> \o rest.items]

\* RegexBuilder::new(final_pattern).case_insensitive(..).multi_line(..).build()
Build(final_pattern, ci, ml) ==
  LET p == ParseItems(CharsOf(final_pattern), 1)
  IN  [ok |-> p.ok, items |-> p.items, ci |-> ci, ml |-> ml]

\* Unicode simple case folding, as the regex crate applies it under (?i).
SimpleFold(c) ==
  IF c \in {ChUpperK, ChLowerK, ChKelvin} THEN ChLowerK
  ELSE IF c \in {ChUpperE, ChLowerE} THEN ChLowerE
  ELSE c

CharMatches(pc, c, ci) == c = pc \/ (ci /\ SimpleFold(c) = SimpleFold(pc))

\* The code point that starts at byte offset pos (a boundary before the end).
CharAt(text, pos) ==
  LET w == Width(text[pos + 1])
  IN  SubSeq(text, pos + 1, pos + (IF w = 0 THEN 1 ELSE w))

\* The offsets reached after 0, 1, 2, ... consecutive code points matching pc.
RECURSIVE RepEnds(_, _, _, _)
RepEnds(text, pos, pc, ci) ==
  IF pos < Len(text) /\ IsCharBoundary(text, pos) /\ CharMatches(pc, CharAt(text, pos), ci)
    THEN <<pos>> \o RepEnds(text, pos + Len(CharAt(text, pos)), pc, ci)
    ELSE <<pos>>

NumGroups(items) == Cardinality({j \in 1..Len(items) : items[j].g})

GroupIndex(items, i) == Cardinality({j \in 1..i : items[j].g})

Min(S) == CHOOSE x \in S : \A y \in S : x <= y
Max(S) == CHOOSE x \in S : \A y \in S : x >= y

\* Backtracking match of items[i..] anchored at pos, greedy quantifiers,
\* first alternative that succeeds: None, or <<end, groups>> with groups[j]
\* the span of group j or None when it took no part.
RECURSIVE MatchItems(_, _, _, _, _, _)
MatchItems(items, i, text, pos, ci, caps) ==
  IF i > Len(items) THEN <<pos, caps>>
  ELSE
    LET it   == items[i]
        ends == RepEnds(text, pos, it.c, ci)
        lo   == IF it.q \in {"1", "+"} THEN 1 ELSE 0
        most == IF it.q \in {"1", "?"} THEN 1 ELSE Len(ends) - 1
        hi   == IF most < Len(ends) - 1 THEN most ELSE Len(ends) - 1
        Try(k) ==
          MatchItems(items, i + 1, text, ends[k + 1], ci,
                     IF it.g /\ k >= 1
                       THEN [caps EXCEPT ![GroupIndex(items, i)] = <<ends[k], ends[k + 1]>>]
                       ELSE caps)
        good == {k \in lo..hi : Try(k) # None}
    IN  IF good = {} THEN None ELSE Try(Max(good))

\* regex::Regex::captures_at(text, start): the leftmost match that starts at
\* or after start, never splitting a code point: None, or <<m, groups>> with
\* m = <<start, end>> the whole match.
CapturesAt(inner, text, start) ==
  LET none0 == [j \in 1..NumGroups(inner.items) |-> None]
      M(s)  == MatchItems(inner.items, 1, text, s, inner.ci, none0)
      hits  == {s \in start..Len(text) : IsCharBoundary(text, s) /\ M(s) # None}
  IN  IF hits = {} THEN None
      ELSE LET s == Min(hits) IN <<<<s, M(s)[1]>>, M(s)[2]>>

\* ------------------------------------------------ TextBuffer and Text
\* TextBuffer::read_forward(offset) of a gap buffer whose gap sits at byte
\* offset gap: the bytes from offset up to the gap, or from offset to the end.
ReadForward(buf, gp, offset) ==
  IF offset < gp THEN SubSeq(buf, offset + 1, gp) ELSE Drop(buf, offset)

\* The loop of Text::refresh from a given offset.
RECURSIVE RefreshFrom(_, _, _)
RefreshFrom(buf, gp, offset) ==
  LET chunk == ReadForward(buf, gp, offset)
  IN  IF chunk = <<>> THEN <<>>
      ELSE Utf8Lossy(chunk) \o RefreshFrom(buf, gp, offset + Len(chunk))

\* Text::refresh: the new content (the old content is cleared first).
RefreshContent(buf, gp) == RefreshFrom(buf, gp, 0)

\* ------------------------------------------------------- Regex, Full mode
\* Regex::new (Full): the compiled pattern; .ok is FALSE where new returns Err.
FullCompile(pat, fl) ==
  Build(IF HasFlag(fl, LITERAL) THEN Escape(pat) ELSE pat,
        HasFlag(fl, CASE_INSENSITIVE), HasFlag(fl, MULTILINE))

FullNew(pat, fl, textContent) ==
  [inner |-> FullCompile(pat, fl), text |-> textContent, last_idx |-> 0, captures |-> None]

\* Variant of FullReset: the offset is not stored.
FullResetNoOffset(c, offset) == [c EXCEPT !.captures = None]

\* Variant of FullReset: the groups of the last match are kept.
FullResetKeepsCaptures(c, offset) == [c EXCEPT !.last_idx = offset]

\* Regex::reset (Full)
FullReset(c, offset) == [c EXCEPT !.last_idx = offset, !.captures = None]

\* Regex::set_text (Full), after text.refresh()
FullSetText(c, textContent, offset) == FullReset([c EXCEPT !.text = textContent], offset)

\* Regex::group_count (Full)
FullGroupCount(c) ==
  IF c.captures # None
    THEN Len(c.captures[1]) - 1
    ELSE 0

\* Regex::group (Full): group as usize is out of range for a negative group.
FullGroup(c, group) ==
  IF c.captures # None
    THEN (IF group >= 0 /\ group < Len(c.captures[1]) THEN c.captures[1][group + 1] ELSE None)
    ELSE None

\* Variant of FullGroups: a group that took no part is left out.
FullGroupsSkipAbsent(caps) ==
  LET TookPart(g) == g # None
  IN  <<caps[1]>> \o SelectSeq(caps[2], TookPart)

\* Variant of FullGroups: the loop starts at group 1.
FullGroupsFromOne(caps) ==
  [i \in 1..Len(caps[2]) |-> IF caps[2][i] # None THEN caps[2][i] ELSE <<0, 0>>]

\* The groups vector next() builds from the match: 0..0 for a group that took no part.
FullGroups(caps) ==
  <<caps[1]>> \o [i \in 1..Len(caps[2]) |-> IF caps[2][i] # None THEN caps[2][i] ELSE <<0, 0>>]

\* Variants of FullAdvance: resuming at the match start; no forced advance
\* after a zero-length match.
FullAdvanceToStart(range) == range[1]

FullAdvanceRaw(range) == range[2]

\* The resume offset next() stores after a match (Full).
FullAdvance(range) == IF range[1] = range[2] THEN range[2] + 1 ELSE range[2]

\* Variant of FullNext: past the end of the text the search wraps around.
FullNextWrapsAround(c) ==
  LET from == IF c.last_idx > Len(c.text) THEN 0 ELSE c.last_idx
      caps == CapturesAt(c.inner, c.text, from)
  IN  IF caps = None THEN [c |-> c, ret |-> None]
      ELSE [c   |-> [c EXCEPT !.captures = <<FullGroups(caps)>>,
                              !.last_idx = FullAdvance(caps[1])],
            ret |-> caps[1]]

\* Variant of FullNext: a search that finds nothing rewinds the cursor.
FullNextRewinds(c) ==
  IF c.last_idx > Len(c.text) THEN [c |-> c, ret |-> None]
  ELSE LET caps == CapturesAt(c.inner, c.text, c.last_idx)
       IN  IF caps = None THEN [c |-> [c EXCEPT !.last_idx = 0], ret |-> None]
           ELSE [c   |-> [c EXCEPT !.captures = <<FullGroups(caps)>>,
                                   !.last_idx = FullAdvance(caps[1])],
                 ret |-> caps[1]]

\* Iterator::next (Full): the cursor after the call and the value returned.
FullNext(c) ==
  IF c.last_idx > Len(c.text) THEN [c |-> c, ret |-> None]
  ELSE LET caps == CapturesAt(c.inner, c.text, c.last_idx)
       IN  IF caps = None THEN [c |-> c, ret |-> None]
           ELSE [c   |-> [c EXCEPT !.captures = <<FullGroups(caps)>>,
                                   !.last_idx = FullAdvance(caps[1])],
                 ret |-> caps[1]]

\* ------------------------------------------------------- Regex, Lite mode
LiteNew(pat, fl, textContent) ==
  [pattern |-> pat, text |-> textContent, last_idx |-> 0,
   case_insensitive |-> HasFlag(fl, CASE_INSENSITIVE)]

\* Regex::reset (Lite)
LiteReset(c, offset) == [c EXCEPT !.last_idx = offset]

\* Regex::set_text (Lite), after text.refresh()
LiteSetText(c, textContent, offset) == LiteReset([c EXCEPT !.text = textContent], offset)

LiteGroupCount(c) == 0

LiteGroup(c, group) == None

\* Variants of LiteFound: searching the whole text instead of the slice;
\* ignoring case_insensitive.
LiteFoundWholeText(c, slice) ==
  IF c.case_insensitive
    THEN Find(ToLowercase(c.text), ToLowercase(c.pattern))
    ELSE Find(c.text, c.pattern)

LiteFoundCaseSensitive(c, slice) == Find(slice, c.pattern)

\* The search of next() (Lite) in slice = text[last_idx..].
LiteFound(c, slice) ==
  IF c.case_insensitive
    THEN Find(ToLowercase(slice), ToLowercase(c.pattern))
    ELSE Find(slice, c.pattern)

\* Variant of LiteRange: the slice index is reported as a text offset.
LiteRangeNoOffset(c, idx) == <<idx, idx + Len(c.pattern)>>

\* The range next() reports for a hit at idx of the slice (Lite).
LiteRange(c, idx) == <<c.last_idx + idx, c.last_idx + idx + Len(c.pattern)>>

\* Iterator::next (Lite): the cursor after the call, the value returned, and
\* whether the call panicked (slicing the text inside a code point).
LiteNext(c) ==
  IF c.last_idx > Len(c.text) THEN [c |-> c, ret |-> None, panic |-> FALSE]
  ELSE IF ~IsCharBoundary(c.text, c.last_idx) THEN [c |-> c, ret |-> None, panic |-> TRUE]
  ELSE LET found == LiteFound(c, Drop(c.text, c.last_idx))
       IN  IF found = None THEN [c |-> c, ret |-> None, panic |-> FALSE]
           ELSE LET r == LiteRange(c, found[1])
                IN  [c |-> [c EXCEPT !.last_idx = r[2]], ret |-> r, panic |-> FALSE]

\* ------------------------------------------------------------- inputs
RECURSIVE StringsUpTo(_, _)
StringsUpTo(chars, n) ==
  IF n = 0 THEN {<<>>}
  ELSE LET S == StringsUpTo(chars, n - 1) IN S \cup {c \o t : c \in chars, t \in S}

\* Documents searched: the ASCII letters k and K, a two-byte letter whose
\* lowercase is two bytes, and the three-byte KELVIN SIGN, whose lowercase
\* is the one-byte k.
Docs == StringsUpTo({ChLowerK, ChUpperK, ChUpperE, ChKelvin}, MaxChars)

\* Documents of the sessions that edit the buffer:  k  and  E-acute k.
EditDocs == {ChLowerK, ChUpperE \o ChLowerK}

\* The document such a session starts from.
FirstDocs == {ChLowerK}

\* Patterns:  ""  K  KELVIN SIGN  E-acute  k*  k+  (k)?K
Patterns ==
  {<<>>, ChUpperK, ChKelvin, ChUpperE, ChLowerK \o ChStar, ChLowerK \o ChPlus,
   ChOpen \o ChLowerK \o ChClose \o ChQuest \o ChUpperK}

\* Patterns of the sessions that edit the buffer:  k  k*  (k)
EditPatterns == {ChLowerK, ChLowerK \o ChStar, ChOpen \o ChLowerK \o ChClose}

\* Flag words: none, CASE_INSENSITIVE, MULTILINE, LITERAL, LITERAL | CASE_INSENSITIVE.
FlagSet == {0, 1, 2, 4, 5}

\* ------------------------------------------------------------- state
VARIABLES
  buffer,     \* the document buffer's bytes
  gap,        \* where the buffer's storage splits (read_forward's chunk end)
  content,    \* Text::content of the snapshot
  pattern,    \* the pattern the cursors were built with
  flags,      \* the flags the cursors were built with
  full,       \* the Full-mode Regex: inner, text, last_idx, captures
  lite,       \* the Lite-mode Regex: pattern, text, last_idx, case_insensitive
  op,         \* the operation that led to this state
  fullRet,    \* what the Full cursor's last next() since new/reset/set_text returned
  liteRet,    \* what the Lite cursor's last next() since new/reset/set_text returned
  litePanic,  \* whether that next() of the Lite cursor panicked
  fullLast,   \* the last match the Full cursor returned since new/reset/set_text
  liteLast,   \* the last match the Lite cursor returned since new/reset/set_text
  runStart,   \* the offset of the last reset/set_text (0 after new)
  fullTrace,  \* the results of the Full cursor's next() calls since then
  converter,  \* the Result of the last Converter::new
  encodings,  \* its <<source_encoding, target_encoding>>
  input,      \* the input buffer of the last convert()
  outputWas,  \* the output buffer before that call
  output,     \* the output buffer after it
  convRet     \* what that call returned, None before any

convVars == <<converter, encodings, input, outputWas, output, convRet>>

vars ==
  <<buffer, gap, content, pattern, flags, full, lite, op, fullRet, liteRet,
    litePanic, fullLast, liteLast, runStart, fullTrace, convVars>>

AnyGap(buf) == 0..Len(buf)

\* The state after Text::new and Regex::new, for both builds of Regex;
\* oneChunk: the buffer's storage is contiguous (the split is at its end).
Constructed(docs, pats, oneChunk) ==
  /\ buffer \in docs
  /\ gap \in (IF oneChunk THEN {Len(buffer)} ELSE AnyGap(buffer))
  /\ content = RefreshContent(buffer, gap)
  /\ pattern \in pats
  /\ flags \in FlagSet
  /\ FullCompile(pattern, flags).ok
  /\ full = FullNew(pattern, flags, content)
  /\ lite = LiteNew(pattern, flags, content)
  /\ op = "new"
  /\ fullRet = None /\ liteRet = None /\ litePanic = FALSE
  /\ fullLast = None /\ liteLast = None
  /\ runStart = 0 /\ fullTrace = <<>>
  /\ encodings = <<"UTF-8", "UTF-8">>
  /\ converter = ConverterNew(encodings[1], encodings[2])
  /\ input = <<>> /\ outputWas = <<>> /\ output = <<>> /\ convRet = None

\* Sessions that edit the buffer and re-synchronise the cursors.
Init == Constructed(FirstDocs, EditPatterns, FALSE)

\* Sessions that search one document.
InitSearch == Constructed(Docs, Patterns, TRUE)

Record(trace, ret) == IF Len(trace) < MaxTrace THEN Append(trace, ret) ELSE trace

\* next() on the cursor, in both builds.
NextOp ==
  LET f == FullNext(full)
      l == LiteNext(lite)
  IN  /\ full' = f.c
      /\ lite' = l.c
      /\ op' = "next"
      /\ fullRet' = f.ret
      /\ liteRet' = l.ret
      /\ litePanic' = l.panic
      /\ fullLast' = IF f.ret # None THEN f.ret ELSE fullLast
      /\ liteLast' = IF l.ret # None THEN l.ret ELSE liteLast
      /\ fullTrace' = Record(fullTrace, f.ret)
      /\ UNCHANGED <<buffer, gap, content, pattern, flags, runStart, convVars>>

\* reset(offset) on the cursor, in both builds.
Reset ==
  \E offset \in 0..(Len(full.text) + 1) :
    /\ full' = FullReset(full, offset)
    /\ lite' = LiteReset(lite, offset)
    /\ op' = "reset"
    /\ fullRet' = None /\ liteRet' = None /\ litePanic' = FALSE
    /\ fullLast' = None /\ liteLast' = None
    /\ runStart' = offset /\ fullTrace' = <<>>
    /\ UNCHANGED <<buffer, gap, content, pattern, flags, convVars>>

\* The editor changes the document.
Edit ==
  /\ \E doc \in EditDocs \ {buffer} :
       /\ buffer' = doc
       /\ gap' \in AnyGap(doc)
  /\ op' = "edit"
  /\ UNCHANGED <<content, pattern, flags, full, lite, fullRet, liteRet, litePanic,
                 fullLast, liteLast, runStart, fullTrace, convVars>>

\* Variant of Refresh: the cursors follow the snapshot.
RefreshReCopies ==
  /\ content' = RefreshContent(buffer, gap)
  /\ full' = [full EXCEPT !.text = content']
  /\ lite' = [lite EXCEPT !.text = content']
  /\ op' = "refresh"
  /\ UNCHANGED <<buffer, gap, pattern, flags, fullRet, liteRet, litePanic,
                 fullLast, liteLast, runStart, fullTrace, convVars>>

\* Text::refresh on the snapshot.
Refresh ==
  /\ content' = RefreshContent(buffer, gap)
  /\ op' = "refresh"
  /\ UNCHANGED <<buffer, gap, pattern, flags, full, lite, fullRet, liteRet, litePanic,
                 fullLast, liteLast, runStart, fullTrace, convVars>>

\* set_text(text, offset) on the cursor, in both builds: refresh, copy, reset.
SetText ==
  LET fresh == RefreshContent(buffer, gap)
  IN  \E offset \in 0..(Len(fresh) + 1) :
        /\ content' = fresh
        /\ full' = FullSetText(full, fresh, offset)
        /\ lite' = LiteSetText(lite, fresh, offset)
        /\ op' = "set_text"
        /\ fullRet' = None /\ liteRet' = None /\ litePanic' = FALSE
        /\ fullLast' = None /\ liteLast' = None
        /\ runStart' = offset /\ fullTrace' = <<>>
        /\ UNCHANGED <<buffer, gap, pattern, flags, convVars>>

Next == NextOp \/ Reset \/ Edit \/ Refresh \/ SetText

Spec == Init /\ [][Next]_vars

NextSearch == NextOp \/ Reset

SpecSearch == InitSearch /\ [][NextSearch]_vars

\* ------------------------------------------------- Converter sessions
\* Encoding names a caller passes: the two of ENCODINGS, and names it lacks.
EncodingNames == {"UTF-8", "UTF-8 BOM", "utf-8", "UTF-16", ""}

\* Input buffers, and output buffers of written and never written bytes.
Inputs == UNION {[1..n -> {65, 195}] : n \in 0..MaxBuf}

Outputs == UNION {[1..n -> {Uninit, 32}] : n \in 0..MaxBuf}

searchVars ==
  <<buffer, gap, content, pattern, flags, full, lite, fullRet, liteRet,
    litePanic, fullLast, liteLast, runStart, fullTrace>>

\* The state after Converter::new, beside a cursor built over the document  k.
InitConverter ==
  /\ buffer = ChLowerK /\ gap = Len(buffer)
  /\ content = RefreshContent(buffer, gap)
  /\ pattern = ChLowerK /\ flags = 0
  /\ full = FullNew(pattern, flags, content)
  /\ lite = LiteNew(pattern, flags, content)
  /\ fullRet = None /\ liteRet = None /\ litePanic = FALSE
  /\ fullLast = None /\ liteLast = None
  /\ runStart = 0 /\ fullTrace = <<>>
  /\ op = "Converter::new"
  /\ encodings \in EncodingNames \X EncodingNames
  /\ converter = ConverterNew(encodings[1], encodings[2])
  /\ input = <<>> /\ outputWas = <<>> /\ output = <<>> /\ convRet = None

\* Converter::new with another pair of encoding names.
NewConverter ==
  \E source_encoding \in EncodingNames, target_encoding \in EncodingNames :
    /\ encodings' = <<source_encoding, target_encoding>>
    /\ converter' = ConverterNew(source_encoding, target_encoding)
    /\ input' = <<>> /\ outputWas' = <<>> /\ output' = <<>> /\ convRet' = None
    /\ op' = "Converter::new"
    /\ UNCHANGED searchVars

\* convert(input, output) on a converter that was made.
Convert ==
  /\ converter.ok
  /\ \E in \in Inputs, out \in Outputs :
       /\ input' = in
       /\ outputWas' = out
       /\ output' = ConvertOutput(in, out)
       /\ convRet' = ConvertResult(in, out)
  /\ op' = "convert"
  /\ UNCHANGED <<converter, encodings, searchVars>>

NextConverter == NewConverter \/ Convert

SpecConverter == InitConverter /\ [][NextConverter]_vars

\* ------------------------------------------------------------- claims
IsZeroLength(r) == r # None /\ r[1] = r[2]

\* C1: in both backends, during a run of next() calls the resume offset never
\* decreases, and every returned match starts at or after the resume offset
\* held before the call and at or after the end of the previously returned
\* match of the run.
C1_MatchesNeverOverlap ==
  [][op' = "next" =>
       /\ full'.last_idx >= full.last_idx
       /\ lite'.last_idx >= lite.last_idx
       /\ fullRet' # None =>
            /\ fullRet'[1] >= full.last_idx
            /\ fullLast # None => fullRet'[1] >= fullLast[2]
       /\ liteRet' # None =>
            /\ liteRet'[1] >= lite.last_idx
            /\ liteLast # None => liteRet'[1] >= liteLast[2]]_vars

\* A second match in a row, returned by both backends.
C1_Witness ==
  /\ op = "next"
  /\ Len(fullTrace) = 2 /\ fullTrace[1] # None /\ fullTrace[2] # None
  /\ fullTrace[2][1] >= fullTrace[1][2]
  /\ liteRet = fullRet /\ liteLast = liteRet /\ liteRet[1] > 0

\* C2: in Full mode every successful next() leaves the resume offset strictly
\* greater than before the call, so no zero-length match is returned twice in
\* a row; the offset never exceeds the text length by more than one, and once
\* it exceeds the text length next() returns end-of-sequence: a run of next()
\* calls returns at most Len(text) + 2 matches before end-of-sequence.
C2_FullProgress ==
  [][op' = "next" =>
       /\ fullRet' # None =>
            /\ full'.last_idx > full.last_idx
            /\ full'.last_idx <= Len(full.text) + 1
            /\ (IsZeroLength(fullRet') /\ op = "next") => fullRet' # fullRet
       /\ full.last_idx > Len(full.text) => fullRet' = None]_vars

\* Zero-length matches were returned, each at a new offset, and the run ended.
C2_Witness ==
  /\ op = "next" /\ fullRet = None
  /\ Len(fullTrace) >= 3
  /\ IsZeroLength(fullTrace[1]) /\ IsZeroLength(fullTrace[2])
  /\ fullTrace[2][1] > fullTrace[1][1]

\* C3: in Full mode the resume offset next() sets after a zero-length match is
\* never strictly inside a multi-byte code point: it is the next code-point
\* boundary after the match end, or a position past the end of the text.
C3_ZeroLengthAdvanceOnBoundary ==
  (op = "next" /\ IsZeroLength(fullRet)) =>
     /\ full.last_idx > fullRet[2]
     /\ \/ full.last_idx > Len(full.text)
        \/ /\ IsCharBoundary(full.text, full.last_idx)
           /\ \A p \in (fullRet[2] + 1)..(full.last_idx - 1) : ~IsCharBoundary(full.text, p)

\* The first n results of next() on cursor c.
RECURSIVE FullRun(_, _)
FullRun(c, n) ==
  IF n = 0 THEN <<>> ELSE <<FullNext(c).ret>> \o FullRun(FullNext(c).c, n - 1)

\* C4: for a fixed text, pattern and flags, reset(k) followed by repeated
\* next() calls yields the sequence a cursor freshly built over that text and
\* started at k yields, whatever next/reset calls were made before (Full).
C4_ResetReplaysTheSequence ==
  fullTrace =
    FullRun([FullNew(pattern, flags, full.text) EXCEPT !.last_idx = runStart], Len(fullTrace))

\* A run that follows reset(1), returns a match and reaches end-of-sequence.
C4_Witness ==
  /\ op = "next" /\ runStart = 1
  /\ Len(fullTrace) >= 2 /\ fullTrace[1] # None /\ fullRet = None

\* C5: after set_text(snapshot, offset) the snapshot has been refreshed, the
\* cursor's private text equals the buffer's content at the time of the call
\* and the resume offset equals offset, so that the matches that follow are
\* matches in the new content.
C5_SetTextCopiesTheBuffer ==
  op = "set_text" =>
     /\ content = Utf8Lossy(buffer)
     /\ full.text = Utf8Lossy(buffer) /\ lite.text = Utf8Lossy(buffer)
     /\ full.last_idx = runStart /\ lite.last_idx = runStart
     /\ full.captures = None

\* C6: in Full mode, whenever group(0) is present it equals the range returned
\* by the most recent successful next(); right after a successful next() it is
\* the returned range, and a next() that returns end-of-sequence leaves it.
C6_GroupZeroIsTheLastMatch ==
  /\ FullGroup(full, 0) # None => FullGroup(full, 0) = fullLast
  /\ (op = "next" /\ fullRet # None) => FullGroup(full, 0) = fullRet
  /\ fullLast # None => FullGroup(full, 0) = fullLast

\* End-of-sequence after a match: group(0) still is that match.
C6_Witness ==
  /\ op = "next" /\ fullRet = None /\ fullLast # None
  /\ FullGroup(full, 0) = fullLast
  /\ full.text = ChUpperE \o ChLowerK

\* ---- Lite mode: what a search is meant to find
IsAscii(str) == \A i \in 1..Len(str) : str[i] < 128

AsciiLower(str) == [i \in 1..Len(str) |-> IF str[i] >= 65 /\ str[i] <= 90 THEN str[i] + 32 ELSE str[i]]

\* The offsets at or after from at which pat occurs in text, byte for byte
\* or, with fold, after lowercasing the ASCII letters of both.
Occurrences(text, pat, from, fold) ==
  {st \in from..(Len(text) - Len(pat)) :
     LET sub == SubSeq(text, st + 1, st + Len(pat))
     IN  IF fold THEN AsciiLower(sub) = AsciiLower(pat) ELSE sub = pat}

\* The range of the first of these occurrences, or None.
FirstOccurrence(text, pat, from, fold) ==
  LET occ == Occurrences(text, pat, from, fold)
  IN  IF occ = {} THEN None ELSE <<Min(occ), Min(occ) + Len(pat)>>

\* The cases C7 speaks of: a non-empty pattern, searched byte for byte, or
\* case-insensitively in ASCII-only text.
C7_Case(c) ==
  /\ c.pattern # <<>>
  /\ c.case_insensitive => (IsAscii(c.text) /\ IsAscii(c.pattern))

CodePoints(text) ==
  {<<p, p + Len(CharAt(text, p))>> : p \in {q \in 0..(Len(text) - 1) : IsCharBoundary(text, q)}}

\* Lowercasing changes the byte length of no code point of text that overlaps [lo, hi).
KeepsLength(text, lo, hi) ==
  \A cp \in CodePoints(text) :
    (cp[1] < hi /\ cp[2] > lo) =>
      Len(LowerChar(SubSeq(text, cp[1] + 1, cp[2]))) = cp[2] - cp[1]

\* The case-insensitive occurrences of pat in text at or after from: ranges on
\* code-point boundaries whose lowercase is the lowercase of pat.
FoldOccurrences(text, pat, from) ==
  {r \in (from..Len(text)) \X (from..Len(text)) :
     /\ r[1] <= r[2]
     /\ IsCharBoundary(text, r[1]) /\ IsCharBoundary(text, r[2])
     /\ ToLowercase(SubSeq(text, r[1] + 1, r[2])) = ToLowercase(pat)}

FirstFoldOccurrence(text, pat, from) ==
  LET occ == FoldOccurrences(text, pat, from)
  IN  IF occ = {} THEN None ELSE CHOOSE r \in occ : \A o \in occ : r[1] <= o[1]

\* C8 as stated: in Lite mode with CASE_INSENSITIVE, whenever lowercasing
\* changes the byte length of no code point of the matched occurrence, the
\* reported range is the first case-insensitive occurrence of the pattern at or
\* after the resume offset.
C8_AsStated ==
  [][(op' = "next" /\ lite.case_insensitive /\ liteRet' # None) =>
       LET first == FirstFoldOccurrence(lite.text, lite.pattern, lite.last_idx)
       IN  (first # None /\ KeepsLength(lite.text, first[1], first[2])) =>
             liteRet' = first]_vars

\* C8, amended: the same whenever lowercasing changes the byte length of no
\* code point of the pattern and of no code point of the text between the
\* resume offset and the end of the reported range.
C8_LiteFoldRangeIsFirstOccurrence ==
  [][(op' = "next" /\ lite.case_insensitive /\ liteRet' # None) =>
       ((/\ KeepsLength(lite.pattern, 0, Len(lite.pattern))
         /\ KeepsLength(lite.text, lite.last_idx, liteRet'[2])) =>
          liteRet' = FirstFoldOccurrence(lite.text, lite.pattern, lite.last_idx))]_vars

\* A case-insensitive match of a two-byte letter after a resume offset past a
\* KELVIN SIGN: multi-byte text, lengths kept from the resume offset on.
C8_Witness ==
  /\ op = "next" /\ lite.case_insensitive
  /\ lite.pattern = ChUpperE /\ liteRet = <<3, 5>>
  /\ SubSeq(lite.text, 1, 3) = ChKelvin

\* A range into text: from <= start <= end <= Len(text), both on code-point boundaries.
ValidRange(text, from, r) ==
  /\ from <= r[1] /\ r[1] <= r[2] /\ r[2] <= Len(text)
  /\ IsCharBoundary(text, r[1]) /\ IsCharBoundary(text, r[2])

\* C9 as stated: in both backends every range next() returns is a valid range
\* into the cursor's text, starting at or after the resume offset held before
\* the call, with both ends on code-point boundaries.
C9_AsStated ==
  [][op' = "next" =>
       /\ fullRet' # None => ValidRange(full.text, full.last_idx, fullRet')
       /\ liteRet' # None => ValidRange(lite.text, lite.last_idx, liteRet')]_vars

\* C9, amended: that holds in Full mode, and in Lite mode without
\* CASE_INSENSITIVE; with CASE_INSENSITIVE it holds whenever lowercasing changes
\* the byte length of no code point of the pattern and of no code point of the
\* text between the resume offset and the end of the reported range.
C9_RangesAreValid ==
  [][op' = "next" =>
       /\ fullRet' # None => ValidRange(full.text, full.last_idx, fullRet')
       /\ (/\ liteRet' # None
           /\ lite.case_insensitive =>
                /\ KeepsLength(lite.pattern, 0, Len(lite.pattern))
                /\ KeepsLength(lite.text, lite.last_idx, liteRet'[2])) =>
            ValidRange(lite.text, lite.last_idx, liteRet')]_vars

\* Both backends return a range that ends a multi-byte text, after a resume
\* offset inside it.
C9_Witness ==
  /\ op = "next" /\ fullRet # None /\ liteRet # None
  /\ ~IsAscii(full.text) /\ runStart > 0
  /\ fullRet[2] = Len(full.text) /\ liteRet[2] = Len(lite.text)
  /\ fullRet[2] - fullRet[1] > 1

\* C10: for a non-empty pattern searched with LITERAL set and CASE_INSENSITIVE
\* clear, the two backends, driven by the same next/reset/set_text calls with
\* offsets on code-point boundaries of the text, return the same results and
\* hold the same resume offset after every call.
C10_BackendsAgreeOnLiterals ==
  (/\ pattern # <<>>
   /\ HasFlag(flags, LITERAL) /\ ~HasFlag(flags, CASE_INSENSITIVE)
   /\ IsCharBoundary(full.text, runStart)) =>
     /\ full.text = lite.text
     /\ full.last_idx = lite.last_idx
     /\ fullRet = liteRet /\ ~litePanic
     /\ fullLast = liteLast

\* Both backends return the match of a literal in the text set_text copied.
C10_Witness ==
  /\ HasFlag(flags, LITERAL) /\ ~HasFlag(flags, CASE_INSENSITIVE)
  /\ op = "next" /\ fullRet = <<2, 3>> /\ liteRet = <<2, 3>>
  /\ full.text = ChUpperE \o ChLowerK /\ runStart = 2

\* The pattern matches the empty string.
Nullable(items) == \A i \in 1..Len(items) : items[i].q \in {"*", "?"}

\* C11: in both backends a next() called with the resume offset greater than
\* the text length returns end-of-sequence without failing and leaves the
\* resume offset and the last-match groups as they were; with the resume
\* offset equal to the text length the search still runs, and finds the empty
\* match there when the pattern has one.
C11_PastTheEndIsEndOfSequence ==
  [][op' = "next" =>
       /\ full.last_idx > Len(full.text) => (fullRet' = None /\ full' = full)
       /\ lite.last_idx > Len(lite.text) => (liteRet' = None /\ ~litePanic' /\ lite' = lite)
       /\ full.last_idx = Len(full.text) =>
            fullRet' = IF Nullable(full.inner.items)
                         THEN <<Len(full.text), Len(full.text)>> ELSE None
       /\ lite.last_idx = Len(lite.text) =>
            /\ ~litePanic'
            /\ liteRet' = IF lite.pattern = <<>>
                            THEN <<Len(lite.text), Len(lite.text)>> ELSE None]_vars

\* After reset(Len(text) + 1) on a non-empty text, next() returned
\* end-of-sequence in both backends and the offsets stayed.
C11_Witness ==
  /\ op = "next" /\ full.text # <<>>
  /\ runStart = Len(full.text) + 1
  /\ fullRet = None /\ liteRet = None /\ ~litePanic
  /\ full.last_idx = runStart /\ lite.last_idx = runStart
  /\ full.captures = None

\* The group indices a caller asks for (group is an i32).
GroupIndices == -1..3

\* C12: in both backends, while no next() has returned a match since new or
\* the last reset or set_text, group_count() is 0 and group(i) is None for
\* every i, 0 included.
C12_NoGroupsBeforeAMatch ==
  /\ fullLast = None =>
       /\ FullGroupCount(full) = 0
       /\ \A i \in GroupIndices : FullGroup(full, i) = None
  /\ liteLast = None =>
       /\ LiteGroupCount(lite) = 0
       /\ \A i \in GroupIndices : LiteGroup(lite, i) = None

\* A pattern with a capture group, a reset past the only match, and a next()
\* that found nothing: no group is reported.
C12_Witness ==
  /\ op = "next" /\ runStart > 0 /\ runStart <= Len(full.text)
  /\ NumGroups(full.inner.items) = 1
  /\ fullRet = None /\ fullLast = None
  /\ FullGroupCount(full) = 0 /\ FullGroup(full, 0) = None

\* C13: in Full mode, after every successful next() the groups vector has one
\* entry per capture group of the pattern plus group 0, so group_count() is
\* the pattern's group count after every match; group(i) is None for every i
\* outside 0..group_count(); and group(j) is the span of capture group j, or
\* 0..0 when group j took no part in the match.
C13_GroupIndexStability ==
  [][(op' = "next" /\ fullRet' # None) =>
       LET caps == CapturesAt(full.inner, full.text, full.last_idx)
           n    == NumGroups(full.inner.items)
       IN  /\ Len(full'.captures[1]) = n + 1
           /\ FullGroupCount(full') = n
           /\ \A i \in GroupIndices : (i < 0 \/ i > n) => FullGroup(full', i) = None
           /\ \A j \in 1..n :
                FullGroup(full', j) = IF caps[2][j] = None THEN <<0, 0>> ELSE caps[2][j]]_vars

\* A match past the start of the text in which the pattern's one capture
\* group took no part: group(1) is 0..0 and group_count() is 1.
C13_Witness ==
  /\ op = "next" /\ fullRet = <<1, 2>>
  /\ NumGroups(full.inner.items) = 1
  /\ FullGroupCount(full) = 1
  /\ FullGroup(full, 1) = <<0, 0>> /\ FullGroup(full, 2) = None

\* C14: after Text::new or refresh() (set_text calls it too) content is the
\* lossy UTF-8 decoding of the buffer's whole byte sequence, however
\* read_forward splits it into chunks; a buffer of valid UTF-8 is copied as is.
C14_ContentIsTheLossyDecoding ==
  op \in {"new", "refresh", "set_text"} => content = Utf8Lossy(buffer)

\* The encoding names Converter supports.
SupportedNames == {"UTF-8", "UTF-8 BOM"}

\* C15: Converter::new returns Ok exactly when the source and the target
\* encoding name are both "UTF-8" or "UTF-8 BOM"; for every other pair it
\* returns the ICU error 16 (unsupported encoding) and no converter.
C15_ConstructSucceedsForUtf8Only ==
  /\ converter.ok <=> (encodings[1] \in SupportedNames /\ encodings[2] \in SupportedNames)
  /\ ~converter.ok => converter.code = 16
  /\ op = "convert" => converter.ok

\* A supported source with an unsupported target: no converter.
C15_Witness ==
  /\ op = "Converter::new"
  /\ encodings = <<"UTF-8 BOM", "UTF-16">>
  /\ ~converter.ok /\ converter.code = 16

\* C16: convert(input, output) returns Ok((n, n)) with n the smaller of the
\* two buffer lengths; afterwards output[0..n) equals input[0..n) and the
\* output bytes from n on are as before the call; with an output at least as
\* long as the input the whole input is reproduced and n = len(input).
C16_ConvertCopiesThePrefix ==
  op = "convert" =>
    LET n == Min({Len(input), Len(outputWas)})
    IN  /\ convRet = <<n, n>>
        /\ Len(output) = Len(outputWas)
        /\ SubSeq(output, 1, n) = SubSeq(input, 1, n)
        /\ \A i \in (n + 1)..Len(output) : output[i] = outputWas[i]
        /\ Len(outputWas) >= Len(input) =>
             /\ SubSeq(output, 1, Len(input)) = input
             /\ convRet = <<Len(input), Len(input)>>

\* A one-byte input copied into a two-byte output whose second byte was
\* never written and still is not.
C16_Witness ==
  /\ op = "convert" /\ converter.ok
  /\ Len(input) = 1 /\ Len(outputWas) = 2
  /\ outputWas[1] = 32 /\ outputWas[2] = Uninit
  /\ output = <<input[1], Uninit>> /\ convRet = <<1, 1>>

\* C17: the cursor's text is changed by set_text only, which stores the
\* content the refresh it starts with produces: an edit of the buffer, a
\* refresh() of the snapshot, reset(offset) and next() leave it as it was, and
\* next() returns what a search of that text from the resume offset returns,
\* whatever the buffer and the snapshot hold by then (both backends).
C17_OnlySetTextChangesTheText ==
  [][/\ op' = "set_text" =>
          /\ full'.text = RefreshContent(buffer, gap)
          /\ lite'.text = RefreshContent(buffer, gap)
     /\ op' # "set_text" => (full'.text = full.text /\ lite'.text = lite.text)
     /\ op' = "next" =>
          /\ fullRet' = FullNext(full).ret
          /\ liteRet' = LiteNext(lite).ret
          /\ fullRet' # None => fullRet'[2] <= Len(full.text)]_vars

\* The buffer was edited and the snapshot refreshed, and next() still returned
\* the match of the text copied before, in both backends.
C17_Witness ==
  /\ op = "next" /\ fullRet = <<0, 1>> /\ liteRet = <<0, 1>>
  /\ full.text = ChLowerK /\ lite.text = ChLowerK
  /\ buffer = ChUpperE \o ChLowerK
  /\ content = ChUpperE \o ChLowerK

\* C18: in Lite mode, for every pattern, the empty one included, a next()
\* that returns a match leaves the resume offset strictly greater than it
\* was, and never returns the match the call before it returned.
C18_LiteProgress ==
  [][(op' = "next" /\ liteRet' # None) =>
       /\ lite'.last_idx > lite.last_idx
       /\ op = "next" => liteRet' # liteRet]_vars

\* C19: in Lite mode, a run of next() calls that starts from a resume offset
\* on a code-point boundary within the text never leaves the resume offset
\* within the text but strictly inside a code point, where the next call's
\* slice of the text panics.
C19_LiteOffsetStaysOnBoundary ==
  (runStart <= Len(lite.text) /\ IsCharBoundary(lite.text, runStart)) =>
     (lite.last_idx > Len(lite.text) \/ IsCharBoundary(lite.text, lite.last_idx))

\* C20: in both backends a next() that returns end-of-sequence changes
\* neither the resume offset nor the groups of the last match, and the
\* next() called right after it returns end-of-sequence too: only reset or
\* set_text ends the run of end-of-sequence results.
C20_EndOfSequenceIsSticky ==
  [][op' = "next" =>
       /\ fullRet' = None => full' = full
       /\ (liteRet' = None /\ ~litePanic') => lite' = lite
       /\ (op = "next" /\ fullRet = None) => fullRet' = None
       /\ (op = "next" /\ liteRet = None /\ ~litePanic) =>
            (liteRet' = None /\ ~litePanic')]_vars

\* A match, then end-of-sequence twice with the resume offset still within
\* the text and group(0) still the match, in both backends.
C20_Witness ==
  /\ op = "next" /\ Len(fullTrace) = 3
  /\ fullTrace[1] # None /\ fullTrace[2] = None /\ fullTrace[3] = None
  /\ fullRet = None /\ liteRet = None /\ ~litePanic
  /\ liteLast = fullTrace[1]
  /\ full.last_idx <= Len(full.text) /\ lite.last_idx <= Len(lite.text)
  /\ FullGroup(full, 0) = fullTrace[1]

====
